---------------------------- MODULE Spec2Model ----------------------------
(***************************************************************************)
(* Model of the Si3 simulation scheduler and series generator              *)
(* (clk::si3_sim::Si3Sim and clk::si3_sim::Config) together with the       *)
(* DateTime primitives they use (clk::misc_lib::DateTime).                 *)
(*                                                                         *)
(* Instants are whole seconds counted from 2024-01-01T00:00:00 (Epoch).    *)
(* The code's ptime has microsecond resolution; every instant, time of     *)
(* day and sampling interval drawn below is a whole number of seconds and  *)
(* the code only adds whole seconds and whole days to them.                *)
(* Times of day (misc_lib::Time used as a duration since midnight) are     *)
(* whole seconds since midnight.                                           *)
(***************************************************************************)
EXTENDS Integers, Sequences, FiniteSets, TLC

VARIABLES
  run_schedule,   \* Config::run_schedule_
  mjd_mod,        \* Config::mjd_mod_
  measurements,   \* Config::measurements_ (sequence of MeasureEvent)
  start_time,     \* Config::start_time_
  end_time,       \* Config::end_time_
  start_frequency,\* Config::start_frequency_
  drift_rate,     \* Config::drift_rate_
  run_records,    \* Config::run_records_ (sequence of RunRecord, clean_run only)
  current_time,   \* Si3Sim::current_time_ (the scheduler cursor)
  event,          \* generateData's local MeasureEvent event
  pc,             \* position of the caller / of generateData
  output,         \* the data rows written to the output stream, in order
  visit_base,     \* the number of rows written before the current event's visit
  ret,            \* the last scheduler call: its cursor, argument and result
  reordered,      \* whether the constructor's sort changed the list's order
  lib             \* the last call of a parsing or validation function

vars == <<run_schedule, mjd_mod, measurements, start_time, end_time,
          start_frequency, drift_rate, run_records, current_time, event, pc,
          output, visit_base, ret, reordered, lib>>

config_vars == <<run_schedule, mjd_mod, measurements, start_time, end_time,
                 start_frequency, drift_rate>>

-----------------------------------------------------------------------------
(* Bounds of the model *)

MaxWindows == 2      \* most measurement events in a configuration
MaxRows == 6         \* most data rows written before the model stops a run
MaxMod == 2          \* largest modulus of an MJD schedule

-----------------------------------------------------------------------------
(* Quad *)

\* The number of ten-thousandths in one: a Quad is kept as its whole part and
\* its ten-thousandths, both of the sign of the number, as its decimal
\* notation writes it.  (Quad is a 128-bit binary float: its rounding is
\* relative 2^-113, far below the ten-thousandths of the values drawn here.)
TenThousand == 10 * 1000

\* The Quad that is whole + tenk / 10000
quadOf(whole, tenk) ==
  LET floor_whole == whole + (tenk \div TenThousand)
      floor_tenk == tenk % TenThousand
  IN IF floor_whole < 0 /\ floor_tenk > 0
     THEN [whole |-> floor_whole + 1, tenk |-> floor_tenk - TenThousand]
     ELSE [whole |-> floor_whole, tenk |-> floor_tenk]

\* Quad operator+
quadPlus(a, b) == quadOf(a.whole + b.whole, a.tenk + b.tenk)

\* Quad operator* by a number of whole seconds
quadTimes(a, seconds) == quadOf(a.whole * seconds, a.tenk * seconds)

-----------------------------------------------------------------------------
(* DateTime *)

\* DateTime::addDays adds days * 24 hours
SecsPerDay == 24 * 3600

\* DateTime::timeOfDay: ptime::time_of_day, the duration since midnight
timeOfDay(t) == t % SecsPerDay

\* The day an instant falls on, counted from the day of Epoch
dayOf(t) == t \div SecsPerDay

\* DateTime::addDays
addDays(t, days) == t + (days * 24) * 3600

\* setTime that adds the time to the time point
setTimeAdded(t, time) == t + time

\* DateTime::setTime: time_point_ += time - time_point_.time_of_day()
setTime(t, time) == t + (time - timeOfDay(t))

\* operator+= that moves the time point on by a second at least
addSecondsAtLeastOne(t, seconds) == t + (IF seconds < 1 THEN 1 ELSE seconds)

\* operator+= that moves the time point back
addSecondsBack(t, seconds) == t - seconds

\* DateTime::operator+=(seconds)
addSeconds(t, seconds) == t + seconds

\* secondsSince with the two time points exchanged
secondsSinceSwapped(t, other) == other - t

\* DateTime::secondsSince: the nanoseconds between the time points over 1e9;
\* every instant here is a whole second
secondsSince(t, other) == t - other

\* The Gregorian date of a Modified Julian Day, as boost::gregorian computes
\* it from the Julian day number (gregorian_calendar::from_day_number).
ymdOfMjd(m) ==
  LET a == (m + 2400001) + 32044
      b == (4 * a + 3) \div 146097
      c == a - ((146097 * b) \div 4)
      d == (4 * c + 3) \div 1461
      e == c - ((1461 * d) \div 4)
      mm == (5 * e + 2) \div 153
  IN [day   |-> e - ((153 * mm + 2) \div 5) + 1,
      month |-> mm + 3 - 12 * (mm \div 10),
      year  |-> 100 * b + d - 4800 + (mm \div 10)]

\* The Modified Julian Day of a Gregorian date (gregorian_calendar::day_number)
mjdOfYmd(year, month, day) ==
  LET a == (14 - month) \div 12
      y == year + 4800 - a
      mm == month + 12 * a - 3
  IN (day + ((153 * mm + 2) \div 5) + 365 * y + (y \div 4) - (y \div 100)
          + (y \div 400) - 32045) - 2400001

\* The calendar date of the instant 0
Epoch == [year |-> 2024, month |-> 1, day |-> 1]

\* The Modified Julian Day of the instant 0
EpochMjd == mjdOfYmd(Epoch.year, Epoch.month, Epoch.day)

\* DateTime::mjd: date().modjulian_day()
mjd(t) == EpochMjd + dayOf(t)

\* DateTime::dayOfWeek: 0 is Sunday; MJD 0 (1858-11-17) was a Wednesday
dayOfWeek(t) == (mjd(t) + 3) % 7

\* DateTime::dayOfMonth
dayOfMonth(t) == ymdOfMjd(mjd(t)).day

\* DateTime::dayOfYear: 1 on January 1st
dayOfYear(t) == mjd(t) - mjdOfYmd(ymdOfMjd(mjd(t)).year, 1, 1) + 1

-----------------------------------------------------------------------------
(* Config *)

\* Config::interval: the length of the schedule's cycle in days
interval(schedule, mod) ==
  CASE schedule = "DAILY"   -> 1
    [] schedule = "WEEKLY"  -> 7
    [] schedule = "MONTHLY" -> 30
    [] schedule = "YEARLY"  -> 365
    [] schedule = "MJD"     -> mod

\* operator<(MeasureEvent, MeasureEvent)
EventLess(lhs, rhs) ==
  IF lhs.day # rhs.day THEN lhs.day < rhs.day
  ELSE lhs.start_time < rhs.start_time

\* The sequences that hold the same events as s, each as often
Arrangements(s) ==
  {[i \in 1..Len(s) |-> s[f[i]]] :
     f \in {g \in [1..Len(s) -> 1..Len(s)] :
              \A i, j \in 1..Len(s) : g[i] = g[j] => i = j}}

\* sortMeasurementEvents that leaves the list as it was added
sortMeasurementEventsUnsorted(s) == {s}

\* Config::sortMeasurementEvents: std::sort leaves the order of events that
\* compare equal unspecified, so every ascending arrangement is a result
sortMeasurementEvents(s) ==
  {p \in Arrangements(s) :
     \A i \in 1..(Len(p) - 1) : ~EventLess(p[i + 1], p[i])}

\* validateMeasurementEvents that takes windows that touch as overlapping
validateSortedStrict(s) ==
  \A i \in 1..Len(s) :
     /\ ~(s[i].end_time <= s[i].start_time)
     /\ (i > 1 =>
           ~(s[i].day = s[i - 1].day /\ s[i].start_time <= s[i - 1].end_time))

\* Config::validateMeasurementEvents, on the sorted list
validateSorted(s) ==
  \A i \in 1..Len(s) :
     /\ ~(s[i].end_time <= s[i].start_time)
     /\ (i > 1 =>
           ~(s[i].day = s[i - 1].day /\ s[i].start_time < s[i - 1].end_time))

\* Config::validateMeasurementEvents: sorts, then checks each event
validateMeasurementEvents(s) ==
  \A p \in sortMeasurementEvents(s) : validateSorted(p)

\* Config::lastRunRecord
lastRunRecord(records) ==
  IF records # <<>> THEN records[Len(records)] ELSE [clean_run |-> FALSE]

\* Config::updateLastRunRecord
updateLastRunRecord(records, record) ==
  IF records # <<>> THEN [records EXCEPT ![Len(records)] = record]
  ELSE Append(records, record)

\* The default coefficients of a Config: asQuad("-2753484.340") Hz and
\* asQuad("0.0002") Hz/s
DefaultStartFrequency == quadOf(-2753484, -3400)
DefaultDriftRate == quadOf(0, 2)

-----------------------------------------------------------------------------
(* Si3Sim: the scheduler *)

\* scheduleDay that numbers the days of a month and of a year from 0
scheduleDayFromZero(schedule, mod, t) ==
  CASE schedule = "DAILY"   -> 0
    [] schedule = "WEEKLY"  -> dayOfWeek(t)
    [] schedule = "MONTHLY" -> dayOfMonth(t) - 1
    [] schedule = "YEARLY"  -> dayOfYear(t) - 1
    [] schedule = "MJD"     -> mjd(t) % interval(schedule, mod)

\* Si3Sim::scheduleDay
scheduleDay(schedule, mod, t) ==
  CASE schedule = "DAILY"   -> 0
    [] schedule = "WEEKLY"  -> dayOfWeek(t)
    [] schedule = "MONTHLY" -> dayOfMonth(t)
    [] schedule = "YEARLY"  -> dayOfYear(t)
    [] schedule = "MJD"     -> mjd(t) % interval(schedule, mod)

\* The predicate of nextMeasurementEvent's find_if
AtOrAfter(e, day, time_of_day) ==
  e.day > day \/ (e.day = day /\ e.start_time >= time_of_day)

\* nextMeasurementEvent that wraps to the back of the list
nextMeasurementEventBack(events, schedule, mod, t) ==
  LET day == scheduleDay(schedule, mod, t)
      hits == {i \in 1..Len(events) : AtOrAfter(events[i], day, timeOfDay(t))}
  IN IF hits # {}
     THEN events[CHOOSE i \in hits : \A j \in hits : i <= j]
     ELSE events[Len(events)]

\* Si3Sim::nextMeasurementEvent on a non-empty list: the first event of the
\* list that the predicate accepts, and the front of the list when none is
nextMeasurementEvent(events, schedule, mod, t) ==
  LET day == scheduleDay(schedule, mod, t)
      hits == {i \in 1..Len(events) : AtOrAfter(events[i], day, timeOfDay(t))}
  IN IF hits # {}
     THEN events[CHOOSE i \in hits : \A j \in hits : i <= j]
     ELSE events[1]

\* The loop  while (day_diff < 0) day_diff += interval  of nextStart
RECURSIVE wrapDayDiff(_, _)
wrapDayDiff(day_diff, len) ==
  IF day_diff < 0 THEN wrapDayDiff(day_diff + len, len) ELSE day_diff

\* day_diff that also skips a start the cursor is exactly at
dayDiffAtStart(schedule, mod, t, e) ==
  LET wrapped == wrapDayDiff(e.day - scheduleDay(schedule, mod, t),
                             interval(schedule, mod))
  IN IF wrapped = 0 /\ timeOfDay(t) >= e.start_time
     THEN interval(schedule, mod)
     ELSE wrapped

\* day_diff that skips a passed start by one day, whatever the cycle
dayDiffOneDay(schedule, mod, t, e) ==
  LET wrapped == wrapDayDiff(e.day - scheduleDay(schedule, mod, t),
                             interval(schedule, mod))
  IN IF wrapped = 0 /\ timeOfDay(t) > e.start_time THEN 1 ELSE wrapped

\* day_diff that does not skip a passed start
dayDiffSameDay(schedule, mod, t, e) ==
  wrapDayDiff(e.day - scheduleDay(schedule, mod, t), interval(schedule, mod))

\* day_diff that skips a passed start by two cycles
dayDiffTwoCycles(schedule, mod, t, e) ==
  LET wrapped == wrapDayDiff(e.day - scheduleDay(schedule, mod, t),
                             interval(schedule, mod))
  IN IF wrapped = 0 /\ timeOfDay(t) > e.start_time
     THEN 2 * interval(schedule, mod)
     ELSE wrapped

\* The day_diff nextStart adds to the cursor
dayDiff(schedule, mod, t, e) ==
  LET wrapped == wrapDayDiff(e.day - scheduleDay(schedule, mod, t),
                             interval(schedule, mod))
  IN IF wrapped = 0 /\ timeOfDay(t) > e.start_time
     THEN interval(schedule, mod)
     ELSE wrapped

\* nextStart that returns the cursor itself when it stands inside the event
\* on the event's day
nextStartFromCursor(schedule, mod, t, e) ==
  IF /\ dayDiffSameDay(schedule, mod, t, e) = 0
     /\ e.start_time < timeOfDay(t)
     /\ timeOfDay(t) <= e.end_time
  THEN t
  ELSE setTime(addDays(t, dayDiff(schedule, mod, t, e)), e.start_time)

\* nextStart that leaves the time of day as it is
nextStartKeepsTime(schedule, mod, t, e) ==
  addDays(t, dayDiff(schedule, mod, t, e))

\* Si3Sim::nextStart
nextStart(schedule, mod, t, e) ==
  setTime(addDays(t, dayDiff(schedule, mod, t, e)), e.start_time)

\* The frequency generateData writes at the cursor t
frequency(start_freq, drift, t, start) ==
  quadPlus(start_freq, quadTimes(drift, secondsSince(t, start)))

-----------------------------------------------------------------------------
(* The configurations and calls the model draws from *)

\* RunSchedule, with the modulus of an MJD schedule (mjd_mod_ defaults to 1)
Schedules ==
  {<<s, 1>> : s \in {"DAILY", "WEEKLY", "MONTHLY", "YEARLY"}}
     \cup {<<"MJD", m>> : m \in 1..MaxMod}

\* Days of the cycle given to measurement events: positions the schedule's
\* scheduleDay can take (Config::read gives every event of a DAILY schedule
\* day 0)
EventDays(schedule, mod) ==
  CASE schedule = "DAILY"   -> {0}
    [] schedule = "WEEKLY"  -> {1, 3}
    [] schedule = "MONTHLY" -> {1, 31}
    [] schedule = "YEARLY"  -> {1, 366}
    [] schedule = "MJD"     -> 0..(mod - 1)

\* Times of day at which events start and end: 00:00:00, 00:01:00 and
\* 23:59:59
EventStarts == {0, 60}
EventEnds == {60, SecsPerDay - 1}

\* Sampling intervals in seconds: half a minute and half a day
EventIntervals == {30, 12 * 3600}

\* The measurement events of a schedule
Events(schedule, mod) ==
  [day : EventDays(schedule, mod), start_time : EventStarts,
   end_time : EventEnds, interval_seconds : EventIntervals]

\* The events given to a call of nextStart, which reads their day and start
NextStartArgs(schedule, mod) ==
  {e \in Events(schedule, mod) :
     e.end_time = SecsPerDay - 1 /\ e.interval_seconds = 30}

\* The lists of measurement events added to a configuration, in any order;
\* the events of one configuration are sampled at the same interval
EventLists(schedule, mod) ==
  UNION {{s \in [1..n -> Events(schedule, mod)] :
            \A i \in 1..n : s[i].interval_seconds = s[1].interval_seconds} :
         n \in 0..MaxWindows}

\* Start of the simulation: Monday 2024-01-01 and Wednesday 2024-01-31
\* (days after Epoch), at 00:00:00 and at 00:01:30
StartDays == {0, 30}
StartTimesOfDay == {0, 90}

\* Seconds from the midnight before the start to the end of the simulation
RunLengths == {120, 3 * SecsPerDay}

\* The configurations a run starts from: a new one, with the default
\* coefficients and no run record, and, for a daily schedule, also one
\* written by an earlier clean run, with a start frequency of 10 Hz and a
\* falling drift of 0.0005 Hz/s
Provenances(schedule) ==
  {[start_frequency |-> DefaultStartFrequency,
    drift_rate |-> DefaultDriftRate,
    run_records |-> <<>>]}
  \cup
  (IF schedule = "DAILY"
   THEN {[start_frequency |-> quadOf(10, 0),
          drift_rate |-> quadOf(0, -5),
          run_records |-> <<[clean_run |-> TRUE]>>]}
   ELSE {})

\* No parsing or validation function has been called
NoLibCall ==
  [op |-> "none", arg |-> <<>>, threw |-> "none", value |-> 0, text |-> <<>>]

\* A default-constructed MeasureEvent
NoEvent == [day |-> 0, start_time |-> 0, end_time |-> 0, interval_seconds |-> 0]

\* No scheduler call yet; n counts the calls made one after the other on the
\* new object
NoCall ==
  [op |-> "none", at |-> 0, arg |-> NoEvent, ev |-> NoEvent, time |-> 0,
   threw |-> FALSE, n |-> 0]

-----------------------------------------------------------------------------
(* Initial state: a Config as read or built by the caller *)

Init ==
  \E sc \in Schedules, d \in StartDays, tod \in StartTimesOfDay,
     len \in RunLengths :
   \E from \in Provenances(sc[1]) :
    /\ run_schedule = sc[1]
    /\ mjd_mod = sc[2]
    /\ measurements \in EventLists(sc[1], sc[2])
    /\ start_time = d * SecsPerDay + tod
    /\ end_time = d * SecsPerDay + len
    /\ start_frequency = from.start_frequency
    /\ drift_rate = from.drift_rate
    /\ run_records = from.run_records
    /\ current_time = d * SecsPerDay + tod
    /\ event = NoEvent
    /\ pc = "config"
    /\ output = <<>>
    /\ visit_base = 0
    /\ ret = NoCall
    /\ reordered = FALSE
    /\ lib = NoLibCall

-----------------------------------------------------------------------------
(* Operations *)

\* Si3Sim::Si3Sim(config): takes the configuration, sets the cursor to its
\* start time and sorts the measurement events
Construct ==
  /\ pc = "config"
  /\ current_time' = start_time
  /\ measurements' \in sortMeasurementEvents(measurements)
  /\ reordered' = (measurements' # measurements)
  /\ pc' = "ready"
  /\ UNCHANGED <<lib, run_schedule, mjd_mod, start_time, end_time,
                 start_frequency, drift_rate, run_records, event, output,
                 visit_base, ret>>

\* A call of Si3Sim::nextMeasurementEvent on the new object, and a second
\* call after it; it throws on an empty list
NextMeasurementEventCall ==
  /\ pc = "ready"
  /\ ret = NoCall \/ (ret.op = "nextMeasurementEvent" /\ ret.n = 1)
  /\ ret' = IF measurements = <<>>
            THEN [NoCall EXCEPT !.op = "nextMeasurementEvent",
                                !.at = current_time, !.threw = TRUE,
                                !.n = ret.n + 1]
            ELSE [NoCall EXCEPT !.op = "nextMeasurementEvent",
                                !.at = current_time,
                                !.ev = nextMeasurementEvent(measurements,
                                         run_schedule, mjd_mod, current_time),
                                !.n = ret.n + 1]
  /\ UNCHANGED <<lib, config_vars, run_records, current_time, event, pc,
                 output, visit_base, reordered>>

\* nextStart(e) with time a reference to current_time_: the cursor moves to
\* the start returned
NextStartCallMovesCursor ==
  /\ pc = "ready"
  /\ ret = NoCall \/ (ret.op = "nextStart" /\ ret.n = 1)
  /\ \E e \in NextStartArgs(run_schedule, mjd_mod) :
       /\ ret.n = 1 => e = ret.arg
       /\ ret' = [NoCall EXCEPT !.op = "nextStart", !.at = current_time,
                                !.arg = e,
                                !.time = nextStart(run_schedule, mjd_mod,
                                                   current_time, e),
                                !.n = ret.n + 1]
  /\ current_time' = ret'.time
  /\ UNCHANGED <<lib, config_vars, run_records, event, pc, output,
                 visit_base, reordered>>

\* A call of Si3Sim::nextStart(e) on the new object, and a second call with
\* the same event after it
NextStartCall ==
  /\ pc = "ready"
  /\ ret = NoCall \/ (ret.op = "nextStart" /\ ret.n = 1)
  /\ \E e \in NextStartArgs(run_schedule, mjd_mod) :
       /\ ret.n = 1 => e = ret.arg
       /\ ret' = [NoCall EXCEPT !.op = "nextStart", !.at = current_time,
                                !.arg = e,
                                !.time = nextStart(run_schedule, mjd_mod,
                                                   current_time, e),
                                !.n = ret.n + 1]
  /\ UNCHANGED <<lib, config_vars, run_records, current_time, event, pc,
                 output, visit_base, reordered>>

\* The record of generateData's  event = nextMeasurementEvent();
\* current_time_ = nextStart(event)
LookupCall(e, t) ==
  [NoCall EXCEPT !.op = "lookup", !.at = current_time, !.arg = e, !.ev = e,
                 !.time = t]

\* generateData that takes a default event when none is configured
GenerateBeginUnchecked ==
  /\ pc = "ready"
  /\ LET e == IF measurements = <<>> THEN NoEvent
              ELSE nextMeasurementEvent(measurements, run_schedule, mjd_mod,
                                        current_time)
         t == nextStart(run_schedule, mjd_mod, current_time, e)
     IN /\ event' = e
        /\ current_time' = t
        /\ ret' = LookupCall(e, t)
        /\ pc' = "outer"
  /\ UNCHANGED <<lib, config_vars, run_records, output, visit_base, reordered>>

\* generateData that validates the measurement events first and throws when
\* they are not valid
GenerateBeginValidated ==
  /\ pc = "ready"
  /\ IF measurements = <<>> \/ ~validateSorted(measurements)
     THEN /\ pc' = "error"
          /\ ret' = [NoCall EXCEPT !.op = "lookup", !.at = current_time,
                                   !.threw = TRUE]
          /\ UNCHANGED <<lib, event, current_time>>
     ELSE LET e == nextMeasurementEvent(measurements, run_schedule, mjd_mod,
                                        current_time)
              t == nextStart(run_schedule, mjd_mod, current_time, e)
          IN /\ event' = e
             /\ current_time' = t
             /\ ret' = LookupCall(e, t)
             /\ pc' = "outer"
  /\ UNCHANGED <<lib, config_vars, run_records, output, visit_base, reordered>>

\* Si3Sim::generateData, up to the outer loop: the header lines, the first
\* event and its start; nextMeasurementEvent's exception ends the call
GenerateBegin ==
  /\ pc = "ready"
  /\ IF measurements = <<>>
     THEN /\ pc' = "error"
          /\ ret' = [NoCall EXCEPT !.op = "lookup", !.at = current_time,
                                   !.threw = TRUE]
          /\ UNCHANGED <<lib, event, current_time>>
     ELSE LET e == nextMeasurementEvent(measurements, run_schedule, mjd_mod,
                                        current_time)
              t == nextStart(run_schedule, mjd_mod, current_time, e)
          IN /\ event' = e
             /\ current_time' = t
             /\ ret' = LookupCall(e, t)
             /\ pc' = "outer"
  /\ UNCHANGED <<lib, config_vars, run_records, output, visit_base, reordered>>

\* while (current_time_ < config_.endTime()): the loop is entered
OuterEnter ==
  /\ pc = "outer"
  /\ current_time < end_time
  /\ pc' = "inner"
  /\ UNCHANGED <<lib, config_vars, run_records, current_time, event, output,
                 visit_base, ret, reordered>>

\* The outer loop ends: the run record is marked clean and generateData
\* returns
Finish ==
  /\ pc = "outer"
  /\ ~(current_time < end_time)
  /\ run_records' = updateLastRunRecord(run_records,
                      [lastRunRecord(run_records) EXCEPT !.clean_run = TRUE])
  /\ pc' = "done"
  /\ UNCHANGED <<lib, config_vars, current_time, event, output, visit_base,
                 ret,
                 reordered>>

\* One pass of the inner loop: a row at the cursor, then the cursor moves on
\* by the event's interval
Sample ==
  /\ pc = "inner"
  /\ timeOfDay(current_time) <= event.end_time
  /\ Len(output) < MaxRows
  /\ output' = Append(output,
                      [time |-> current_time,
                       value |-> frequency(start_frequency, drift_rate,
                                           current_time, start_time)])
  /\ current_time' = addSeconds(current_time, event.interval_seconds)
  /\ UNCHANGED <<lib, config_vars, run_records, event, pc, visit_base, ret,
                 reordered>>

\* The inner loop's end with  <  for  <=  in its condition: the loop may
\* also end at the event's end itself
SnapAtEnd ==
  /\ pc = "inner"
  /\ ~(timeOfDay(current_time) < event.end_time)
  /\ current_time' = setTime(current_time, event.end_time)
  /\ pc' = "lookup"
  /\ UNCHANGED <<lib, config_vars, run_records, event, output, visit_base, ret,
                 reordered>>

\* The inner loop ends and the cursor's time of day is set to the event's end
Snap ==
  /\ pc = "inner"
  /\ ~(timeOfDay(current_time) <= event.end_time)
  /\ current_time' = setTime(current_time, event.end_time)
  /\ pc' = "lookup"
  /\ UNCHANGED <<lib, config_vars, run_records, event, output, visit_base, ret,
                 reordered>>

\* The next event and its start, at the end of the outer loop's body
Lookup ==
  /\ pc = "lookup"
  /\ LET e == nextMeasurementEvent(measurements, run_schedule, mjd_mod,
                                   current_time)
         t == nextStart(run_schedule, mjd_mod, current_time, e)
     IN /\ event' = e
        /\ current_time' = t
        /\ ret' = LookupCall(e, t)
  /\ visit_base' = Len(output)
  /\ pc' = "outer"
  /\ UNCHANGED <<lib, config_vars, run_records, output, reordered>>

\* ~Si3Sim, after generateData has returned or thrown: the last run record
\* gets its end time and is put back (added, when there is none)
Destroy ==
  /\ pc \in {"done", "error"}
  /\ run_records' = updateLastRunRecord(run_records,
                                        lastRunRecord(run_records))
  /\ pc' = "destroyed"
  /\ UNCHANGED <<lib, config_vars, current_time, event, output, visit_base,
                 ret,
                 reordered>>

Next ==
  \/ Construct
  \/ NextMeasurementEventCall
  \/ NextStartCall
  \/ GenerateBegin
  \/ OuterEnter
  \/ Finish
  \/ Sample
  \/ Snap
  \/ Lookup
  \/ Destroy

Spec == Init /\ [][Next]_vars

-----------------------------------------------------------------------------
(* Runs with sampling intervals of zero and of more than half a day *)

\* Events of a daily or weekly schedule that start at 00:00:00 or 00:01:00,
\* end at 00:01:00 or 16:40:00 and are sampled every 0 s (the default of
\* MeasureEvent), every 30 s or every 50000 s
EdgeEvents(schedule) ==
  [day : EventDays(schedule, 1), start_time : {0, 60},
   end_time : {60, 60 * 1000}, interval_seconds : {0, 30, 50 * 1000}]

\* The lists of such events, in any order, sampled at the same interval
EdgeLists(schedule) ==
  UNION {{s \in [1..n -> EdgeEvents(schedule)] :
            \A i \in 1..n : s[i].interval_seconds = s[1].interval_seconds} :
         n \in 0..MaxWindows}

\* The run lengths of these runs: two minutes and nine days
EdgeRunLengths == {120, 9 * SecsPerDay}

\* A Config with such a list, starting at 00:00:00
EdgeInit ==
  \E schedule \in {"DAILY", "WEEKLY"}, d \in StartDays,
     len \in EdgeRunLengths :
    /\ run_schedule = schedule
    /\ mjd_mod = 1
    /\ measurements \in EdgeLists(schedule)
    /\ start_time = d * SecsPerDay
    /\ end_time = d * SecsPerDay + len
    /\ start_frequency = DefaultStartFrequency
    /\ drift_rate = DefaultDriftRate
    /\ run_records = <<>>
    /\ current_time = d * SecsPerDay
    /\ event = NoEvent
    /\ pc = "config"
    /\ output = <<>>
    /\ visit_base = 0
    /\ ret = NoCall
    /\ reordered = FALSE
    /\ lib = NoLibCall

EdgeSpec == EdgeInit /\ [][Next]_vars

-----------------------------------------------------------------------------
(* Strings: a std::string is a sequence of one-character strings *)

DigitChars == <<"0", "1", "2", "3", "4", "5", "6", "7", "8", "9">>

\* The characters \d matches
Digit == {DigitChars[i] : i \in 1..10}

DigitValue(c) == (CHOOSE i \in 1..10 : DigitChars[i] = c) - 1

AllDigits(s) == \A i \in 1..Len(s) : s[i] \in Digit

\* The number a string of digits writes (std::stoul, boost::lexical_cast)
RECURSIVE Number(_)
Number(s) ==
  IF s = <<>> THEN 0
  ELSE 10 * Number(SubSeq(s, 1, Len(s) - 1)) + DigitValue(s[Len(s)])

\* n written with width digits, filled with zeros (setfill('0'), setw(width))
RECURSIVE Padded(_, _)
Padded(n, width) ==
  IF width = 0 THEN <<>>
  ELSE Append(Padded(n \div 10, width - 1), DigitChars[(n % 10) + 1])

RECURSIVE Power10(_)
Power10(n) == IF n = 0 THEN 1 ELSE 10 * Power10(n - 1)

\* What a call returns, and what it throws
Returned(v) == [threw |-> "none", value |-> v]
Thrown(what) == [threw |-> what, value |-> 0]

-----------------------------------------------------------------------------
(* Weekday *)

\* toString(Weekday): SUNDAY is 0
toString(day) ==
  <<<<"S", "u", "n", "d", "a", "y">>,
    <<"M", "o", "n", "d", "a", "y">>,
    <<"T", "u", "e", "s", "d", "a", "y">>,
    <<"W", "e", "d", "n", "e", "s", "d", "a", "y">>,
    <<"T", "h", "u", "r", "s", "d", "a", "y">>,
    <<"F", "r", "i", "d", "a", "y">>,
    <<"S", "a", "t", "u", "r", "d", "a", "y">>>>[day + 1]

\* fromString(Weekday): compares the first two characters with "Su", "Mo", ...
fromString(str) ==
  LET day_id == SubSeq(str, 1, IF Len(str) < 2 THEN Len(str) ELSE 2)
  IN
     IF day_id = <<"S", "u">> THEN Returned(0)
     ELSE IF day_id = <<"M", "o">> THEN Returned(1)
     ELSE IF day_id = <<"T", "u">> THEN Returned(2)
     ELSE IF day_id = <<"W", "e">> THEN Returned(3)
     ELSE IF day_id = <<"T", "h">> THEN Returned(4)
     ELSE IF day_id = <<"F", "r">> THEN Returned(5)
     ELSE IF day_id = <<"S", "a">> THEN Returned(6)
     ELSE Thrown("invalid_argument")

-----------------------------------------------------------------------------
(* DateTime::fromISO and Time::fromISO *)

\* \d{4}-\d{2}-\d{2}T\d{2}:\d{2}:\d{2}
StampShape(s) ==
  /\ Len(s) = 19
  /\ \A i \in {1, 2, 3, 4, 6, 7, 9, 10, 12, 13, 15, 16, 18, 19} :
        s[i] \in Digit
  /\ s[5] = "-" /\ s[8] = "-" /\ s[11] = "T" /\ s[14] = ":" /\ s[17] = ":"

\* \.?\d{0,6}
FractionShape(s) ==
  LET digits == IF s # <<>> /\ s[1] = "." THEN Tail(s) ELSE s
  IN Len(digits) <= 6 /\ AllDigits(digits)

\* The first group of isofmt: the stamp and the fraction
TimePointShape(s) ==
  /\ Len(s) >= 19
  /\ StampShape(SubSeq(s, 1, 19))
  /\ FractionShape(SubSeq(s, 20, Len(s)))

\* The second group of isofmt: Z|((\+|-)(\d{2}):(\d{2}))
ZoneShape(s) ==
  \/ s = <<"Z">>
  \/ /\ Len(s) = 6
     /\ s[1] \in {"+", "-"}
     /\ s[2] \in Digit /\ s[3] \in Digit
     /\ s[4] = ":"
     /\ s[5] \in Digit /\ s[6] \in Digit

\* std::regex_match(iso_string, match, isofmt): the lengths of the first
\* group in a match of the whole string (at most one)
regex_match(s) ==
  {k \in 19..Len(s) :
     /\ TimePointShape(SubSeq(s, 1, k))
     /\ (k = Len(s) \/ ZoneShape(SubSeq(s, k + 1, Len(s))))}

\* The days of a month of the Gregorian calendar
DaysInMonth(year, month) ==
  IF month = 12 THEN 31
  ELSE mjdOfYmd(year, month + 1, 1) - mjdOfYmd(year, month, 1)

\* boost::posix_time::from_iso_extended_string on a string of the first
\* group's shape.  The date is checked (std::out_of_range); the time of day is
\* split at ':' and '.', its seconds are read as unsigned short
\* (bad_lexical_cast beyond 65535) and a fraction of fewer than six digits is
\* scaled to microseconds; hours, minutes and seconds are added up unchecked.
\* A time point is the day since Epoch, the second of the day and the
\* microsecond of the second.
from_iso_extended_string(s) ==
  LET year == Number(SubSeq(s, 1, 4))
      month == Number(SubSeq(s, 6, 7))
      day == Number(SubSeq(s, 9, 10))
      hour == Number(SubSeq(s, 12, 13))
      min == Number(SubSeq(s, 15, 16))
      rest == SubSeq(s, 18, Len(s))
      dots == {i \in 1..Len(rest) : rest[i] = "."}
      dot == IF dots = {} THEN Len(rest) + 1 ELSE CHOOSE i \in dots : TRUE
      sec == Number(SubSeq(rest, 1, dot - 1))
      fraction == SubSeq(rest, dot + 1, Len(rest))
      fs == Number(fraction) * Power10(6 - Len(fraction))
      total == hour * 3600 + min * 60 + sec
  IN IF ~(/\ year \in 1400..9999
          /\ month \in 1..12
          /\ day \in 1..DaysInMonth(year, month))
     THEN Thrown("out_of_range")
     ELSE IF sec >= 2^16
     THEN Thrown("bad_lexical_cast")
     ELSE Returned([day  |-> mjdOfYmd(year, month, day) - EpochMjd
                               + (total \div SecsPerDay),
                    sec  |-> total % SecsPerDay,
                    frac |-> fs])

\* The constructor DateTime(time_point, time_zone, offset_negative, offset_h,
\* offset_m), and Time's, which has the same members
DateTime(time_point, time_zone, offset_negative, offset_h, offset_m) ==
  [time_point |-> time_point, time_zone |-> time_zone,
   offset_negative |-> offset_negative, offset_h |-> offset_h,
   offset_m |-> offset_m]

\* The time point moved back by the offset of its zone: the instant in UTC
TimePointInUtc(time_point, offset_negative, offset_h, offset_m) ==
  LET shift == (IF offset_negative THEN 1 ELSE -1)
                  * (offset_h * 3600 + offset_m * 60)
      total == time_point.sec + shift
  IN [day  |-> time_point.day + (total \div SecsPerDay),
      sec  |-> total % SecsPerDay,
      frac |-> time_point.frac]

\* fromISO that converts a time with an offset to UTC
DateTime_fromISOConverted(iso_string) ==
  IF iso_string = <<>> \/ regex_match(iso_string) = {}
  THEN Thrown("invalid_argument")
  ELSE LET k == CHOOSE n \in regex_match(iso_string) : TRUE
           time == from_iso_extended_string(SubSeq(iso_string, 1, k))
           zone == SubSeq(iso_string, k + 1, Len(iso_string))
       IN IF time.threw # "none" THEN time
          ELSE IF zone = <<>>
          THEN Returned(DateTime(time.value, "LOCAL", FALSE, 0, 0))
          ELSE IF zone = <<"Z">>
          THEN Returned(DateTime(time.value, "UTC", FALSE, 0, 0))
          ELSE Returned(DateTime(
                 TimePointInUtc(time.value, zone[1] = "-",
                                Number(SubSeq(zone, 2, 3)),
                                Number(SubSeq(zone, 5, 6))),
                 "OFFSET", zone[1] = "-",
                 Number(SubSeq(zone, 2, 3)), Number(SubSeq(zone, 5, 6))))

\* fromISO that leaves a time without a suffix in the constructor's default
\* zone
DateTime_fromISODefaultZone(iso_string) ==
  IF iso_string = <<>> \/ regex_match(iso_string) = {}
  THEN Thrown("invalid_argument")
  ELSE LET k == CHOOSE n \in regex_match(iso_string) : TRUE
           time == from_iso_extended_string(SubSeq(iso_string, 1, k))
           zone == SubSeq(iso_string, k + 1, Len(iso_string))
       IN IF time.threw # "none" THEN time
          ELSE IF zone = <<>> \/ zone = <<"Z">>
          THEN Returned(DateTime(time.value, "UTC", FALSE, 0, 0))
          ELSE Returned(DateTime(time.value, "OFFSET", zone[1] = "-",
                                 Number(SubSeq(zone, 2, 3)),
                                 Number(SubSeq(zone, 5, 6))))

\* DateTime::fromISO
DateTime_fromISO(iso_string) ==
  IF iso_string = <<>>
  THEN Thrown("invalid_argument")
  ELSE IF regex_match(iso_string) = {}
  THEN Thrown("invalid_argument")
  ELSE LET k == CHOOSE n \in regex_match(iso_string) : TRUE
           time == from_iso_extended_string(SubSeq(iso_string, 1, k))
           zone == SubSeq(iso_string, k + 1, Len(iso_string))
       IN IF time.threw # "none" THEN time
          ELSE IF zone = <<>>
          THEN Returned(DateTime(time.value, "LOCAL", FALSE, 0, 0))
          ELSE IF zone = <<"Z">>
          THEN Returned(DateTime(time.value, "UTC", FALSE, 0, 0))
          ELSE Returned(DateTime(time.value, "OFFSET", zone[1] = "-",
                                 Number(SubSeq(zone, 2, 3)),
                                 Number(SubSeq(zone, 5, 6))))

\* Time::fromISO (misc_lib/time.cpp): the same steps, for a Time
Time_fromISO(iso_string) ==
  IF iso_string = <<>>
  THEN Thrown("invalid_argument")
  ELSE IF regex_match(iso_string) = {}
  THEN Thrown("invalid_argument")
  ELSE LET k == CHOOSE n \in regex_match(iso_string) : TRUE
           time == from_iso_extended_string(SubSeq(iso_string, 1, k))
           zone == SubSeq(iso_string, k + 1, Len(iso_string))
       IN IF time.threw # "none" THEN time
          ELSE IF zone = <<>>
          THEN Returned(DateTime(time.value, "LOCAL", FALSE, 0, 0))
          ELSE IF zone = <<"Z">>
          THEN Returned(DateTime(time.value, "UTC", FALSE, 0, 0))
          ELSE Returned(DateTime(time.value, "OFFSET", zone[1] = "-",
                                 Number(SubSeq(zone, 2, 3)),
                                 Number(SubSeq(zone, 5, 6))))

\* boost::posix_time::to_iso_extended_string: YYYY-MM-DDTHH:MM:SS, and
\* .ffffff when the fraction is not zero
to_iso_extended_string(time_point) ==
  LET date == ymdOfMjd(EpochMjd + time_point.day)
  IN Padded(date.year, 4) \o <<"-">> \o Padded(date.month, 2) \o <<"-">>
       \o Padded(date.day, 2) \o <<"T">>
       \o Padded(time_point.sec \div 3600, 2) \o <<":">>
       \o Padded((time_point.sec % 3600) \div 60, 2) \o <<":">>
       \o Padded(time_point.sec % 60, 2)
       \o (IF time_point.frac # 0
           THEN <<".">> \o Padded(time_point.frac, 6) ELSE <<>>)

\* Time::toString: the OFFSET case writes the sign and the hours; the second
\* setw(2) is followed by nothing
Time_toString(time) ==
  to_iso_extended_string(time.time_point)
    \o (CASE time.time_zone = "UTC" -> <<"Z">>
          [] time.time_zone = "OFFSET" ->
               <<IF time.offset_negative THEN "-" ELSE "+">>
                 \o Padded(time.offset_h, 2)
          [] OTHER -> <<>>)

\* DateTime::offset, in minutes: (offset_negative_ ? -1 : 1)
\* * (offset_h_ + offset_m_ / 60.0) hours
offset(time) ==
  (IF time.offset_negative THEN -1 ELSE 1)
     * (time.offset_h * 60 + time.offset_m)

\* DateTime::year, month, day, hour, minute
year(time) == ymdOfMjd(EpochMjd + time.time_point.day).year
month(time) == ymdOfMjd(EpochMjd + time.time_point.day).month
day(time) == ymdOfMjd(EpochMjd + time.time_point.day).day
hour(time) == time.time_point.sec \div 3600
minute(time) == (time.time_point.sec % 3600) \div 60

\* DateTime::seconds, in microseconds: the seconds and the fraction
seconds(time) == (time.time_point.sec % 60) * Power10(6) + time.time_point.frac

\* DateTime::operator< and operator==: the time points alone
DateTimeLess(lhs, rhs) ==
  LET a == lhs.time_point
      b == rhs.time_point
  IN \/ a.day < b.day
     \/ a.day = b.day /\ a.sec < b.sec
     \/ a.day = b.day /\ a.sec = b.sec /\ a.frac < b.frac

DateTimeEquals(lhs, rhs) == lhs.time_point = rhs.time_point

-----------------------------------------------------------------------------
(* The strings and window lists given to the parsing and validation calls *)

MaxValidated == 3    \* most measurement events in a validated list

\* Three days of the calendar, and one that is not
IsoDates ==
  {<<"2", "0", "2", "4", "-", "0", "5", "-", "2", "3">>,
   <<"2", "0", "2", "4", "-", "0", "2", "-", "2", "9">>,
   <<"2", "0", "2", "3", "-", "1", "2", "-", "3", "1">>,
   <<"2", "0", "2", "3", "-", "0", "2", "-", "2", "9">>}

\* Three times of the day, and one past its end
IsoTimes ==
  {<<"T", "1", "2", ":", "0", "0", ":", "1", "2">>,
   <<"T", "0", "0", ":", "0", "0", ":", "0", "0">>,
   <<"T", "2", "3", ":", "5", "9", ":", "5", "9">>,
   <<"T", "2", "5", ":", "0", "0", ":", "1", "2">>}

\* No fraction, fractions of 1, 3 and 6 digits, a zero fraction, a dot
\* alone, digits without a dot and a fraction of 7 digits
IsoFractions ==
  {<<>>,
   <<".", "1">>,
   <<".", "1", "0", "0">>,
   <<".", "1", "2", "3", "4", "5", "6">>,
   <<".", "0", "0", "0">>,
   <<".">>,
   <<"1", "2", "3">>,
   <<".", "1", "2", "3", "4", "5", "6", "7">>}

\* No suffix, Z, offsets, and suffixes of other forms
IsoZones ==
  {<<>>,
   <<"Z">>,
   <<"+", "0", "6", ":", "0", "0">>,
   <<"-", "0", "6", ":", "3", "0">>,
   <<"+", "0", "6", ":", "3", "0", ":", "0", "0">>,
   <<"z">>}

IsoStrings ==
  {d \o t \o f \o z :
     d \in IsoDates, t \in IsoTimes, f \in IsoFractions, z \in IsoZones}
  \cup
  {<<>>,
   <<"2", "0", "2", "4", "-", "0", "5", "-", "2", "3", " ", "1", "2", ":", "0", "0", ":", "1", "2">>,
   <<"2", "0", "2", "4", "-", "5", "-", "2", "3", "T", "1", "2", ":", "0", "0", ":", "1", "2", "Z">>}

\* The strings of the compared instants: two days, two times of the day,
\* with and without a fraction, under each kind of suffix
ComparedStrings ==
  {d \o t \o f \o z :
     d \in {<<"2", "0", "2", "4", "-", "0", "5", "-", "2", "3">>,
            <<"2", "0", "2", "3", "-", "1", "2", "-", "3", "1">>},
     t \in {<<"T", "1", "2", ":", "0", "0", ":", "1", "2">>,
            <<"T", "2", "3", ":", "5", "9", ":", "5", "9">>},
     f \in {<<>>, <<".", "1">>},
     z \in {<<>>, <<"Z">>, <<"+", "0", "6", ":", "0", "0">>,
            <<"-", "0", "6", ":", "3", "0">>}}

\* The instants, numbers of days and times of day given to addDays and
\* setTime: the last day of 2023, the first of 2024 and the leap day, at
\* 00:00:00, 00:01:30 and 23:59:59; a day back, none, one and 30 days on;
\* 00:00:00, 00:01:00 and 23:59:59
ModifiedInstants ==
  {d * SecsPerDay + s : d \in {-1, 0, 59}, s \in {0, 90, SecsPerDay - 1}}

AddedDays == {-1, 0, 1, 30}

SetTimes == {0, 60, SecsPerDay - 1}

\* The names toString gives the seven days, and other strings
WeekdayStrings ==
  {toString(d) : d \in 0..6}
  \cup
  {<<>>,
   <<"S", "U", "N", "D", "A", "Y">>, <<"s", "u", "n", "d", "a", "y">>,
   <<"s", "u">>, <<"S", "u">>, <<"S">>, <<"M", "O", "N", "D", "A", "Y">>,
   <<"m", "o">>, <<"T", "u", "e">>, <<"t", "u", "e", "s", "d", "a", "y">>,
   <<"W", "E">>, <<"t", "h", "u", "r", "s", "d", "a", "y">>,
   <<"F", "R", "I">>, <<"s", "a">>, <<"F", "u", "n", "d", "a", "y">>,
   <<"X", "x">>}

\* The measurement events of the validated lists: on day 0 the windows
\* 00:00:00-00:01:00, 00:01:00-00:02:00 and 00:00:30-00:01:30, one that ends
\* as it starts and one that ends before it starts; on day 1 the first and
\* the third
ValidatedEvents ==
  {[day |-> w[1], start_time |-> w[2], end_time |-> w[3],
    interval_seconds |-> 30] :
     w \in {<<0, 0, 60>>, <<0, 60, 120>>, <<0, 30, 90>>, <<0, 60, 60>>,
            <<0, 120, 60>>, <<1, 0, 60>>, <<1, 30, 90>>}}

ValidatedLists ==
  UNION {[1..n -> ValidatedEvents] : n \in 0..MaxValidated}

-----------------------------------------------------------------------------
(* Calls of the parsing and validation functions *)

\* A default-constructed Config; no simulator is made from it
LibInit ==
  /\ run_schedule = "DAILY"
  /\ mjd_mod = 1
  /\ measurements = <<>>
  /\ start_time = 0
  /\ end_time = 0
  /\ start_frequency = DefaultStartFrequency
  /\ drift_rate = DefaultDriftRate
  /\ run_records = <<>>
  /\ current_time = 0
  /\ event = NoEvent
  /\ pc = "lib"
  /\ output = <<>>
  /\ visit_base = 0
  /\ ret = NoCall
  /\ reordered = FALSE
  /\ lib = NoLibCall

sim_vars == <<run_schedule, mjd_mod, start_time, end_time, start_frequency,
              drift_rate, run_records, current_time, event, pc, output,
              visit_base, ret, reordered>>

\* The record of a call that returned or threw
LibCall(op, arg, result) ==
  [op |-> op, arg |-> arg, threw |-> result.threw, value |-> result.value,
   text |-> <<>>]

\* DateTime::fromISO(iso_string)
DateTimeFromISOCall ==
  /\ pc = "lib" /\ lib.op = "none"
  /\ \E s \in IsoStrings :
       lib' = LibCall("DateTime::fromISO", s, DateTime_fromISO(s))
  /\ UNCHANGED <<sim_vars, measurements>>

\* Time::fromISO(iso_string)
TimeFromISOCall ==
  /\ pc = "lib" /\ lib.op = "none"
  /\ \E s \in IsoStrings :
       lib' = LibCall("Time::fromISO", s, Time_fromISO(s))
  /\ UNCHANGED <<sim_vars, measurements>>

\* toString() of the Time that Time::fromISO returned
TimeToStringCall ==
  /\ pc = "lib"
  /\ lib.op = "Time::fromISO" /\ lib.threw = "none"
  /\ lib' = [lib EXCEPT !.op = "Time::toString",
                        !.text = Time_toString(lib.value)]
  /\ UNCHANGED <<sim_vars, measurements>>

\* fromString(str) for a Weekday
FromStringCall ==
  /\ pc = "lib" /\ lib.op = "none"
  /\ \E s \in WeekdayStrings :
       lib' = LibCall("fromString", s, fromString(s))
  /\ UNCHANGED <<sim_vars, measurements>>

\* addMeasurementEvent for each event of a list, then
\* validateMeasurementEvents, which sorts the list and checks it
ValidateCall ==
  /\ pc = "lib" /\ lib.op = "none"
  /\ \E s \in ValidatedLists :
       /\ measurements' \in sortMeasurementEvents(s)
       /\ lib' = LibCall("validateMeasurementEvents", s,
                         Returned(validateSorted(measurements')))
  /\ UNCHANGED sim_vars

\* lhs == rhs, lhs < rhs and rhs < lhs for two DateTimes that fromISO
\* returned
CompareCall ==
  /\ pc = "lib" /\ lib.op = "none"
  /\ \E s, r \in ComparedStrings :
       LET lhs == DateTime_fromISO(s).value
           rhs == DateTime_fromISO(r).value
       IN lib' = LibCall("DateTime::operator==, operator<", <<s, r>>,
                         Returned([equal   |-> DateTimeEquals(lhs, rhs),
                                   less    |-> DateTimeLess(lhs, rhs),
                                   greater |-> DateTimeLess(rhs, lhs)]))
  /\ UNCHANGED <<sim_vars, measurements>>

\* addDays(days) and setTime(time) on a DateTime, each alone and one after
\* the other in both orders
ModifyCall ==
  /\ pc = "lib" /\ lib.op = "none"
  /\ \E t \in ModifiedInstants, days \in AddedDays, time \in SetTimes :
       lib' = LibCall("addDays, setTime", <<t, days, time>>,
                Returned([added     |-> addDays(t, days),
                          set       |-> setTime(t, time),
                          added_set |-> setTime(addDays(t, days), time),
                          set_added |-> addDays(setTime(t, time), days)]))
  /\ UNCHANGED <<sim_vars, measurements>>

LibNext ==
  \/ DateTimeFromISOCall
  \/ TimeFromISOCall
  \/ TimeToStringCall
  \/ FromStringCall
  \/ CompareCall
  \/ ModifyCall
  \/ ValidateCall

LibSpec == LibInit /\ [][LibNext]_vars

-----------------------------------------------------------------------------
(* Properties *)

\* The cycle position of an instant: cyclePosition() at that cursor
PositionAt(t) == scheduleDay(run_schedule, mjd_mod, t)

\* The cycle length of the configured schedule
CycleLength == interval(run_schedule, mjd_mod)

\* The state records a call of nextMeasurementEvent that returned an event
ReturnedEvent == ret.op \in {"nextMeasurementEvent", "lookup"} /\ ~ret.threw

\* The state records a call of nextStart
ReturnedStart == ret.op \in {"nextStart", "lookup"} /\ ~ret.threw

\* The configured windows at or after an instant: cycle_day beyond the
\* position, or on it with a start not before the time of day
WindowsAtOrAfter(t) ==
  LET position == PositionAt(t)
  IN {i \in 1..Len(measurements) :
        \/ measurements[i].day > position
        \/ /\ measurements[i].day = position
           /\ measurements[i].start_time >= timeOfDay(t)}

\* w comes before v in (cycle_day, start) order
Before(w, v) ==
  w.day < v.day \/ (w.day = v.day /\ w.start_time < v.start_time)

\* Every sampling interval is at least one second
PositiveIntervals ==
  \A i \in 1..Len(measurements) : measurements[i].interval_seconds >= 1

\* C1: with a non-empty window list added in any order, whenever some window
\* is at or after the cursor, nextMeasurementEvent returns one of those
\* windows and none of them comes before it in (cycle_day, start) order.
C1_NextWindowIsLeast ==
  ReturnedEvent =>
     LET after == WindowsAtOrAfter(ret.at)
     IN after # {} =>
          /\ \E i \in after : measurements[i] = ret.ev
          /\ \A j \in after : ~Before(measurements[j], ret.ev)

\* C1 witness: the list was added out of order and the window returned is at
\* or after the cursor while the first window of the list is not.
C1_Witness ==
  /\ reordered
  /\ ret.op = "nextMeasurementEvent" /\ ~ret.threw
  /\ WindowsAtOrAfter(ret.at) # {}
  /\ 1 \notin WindowsAtOrAfter(ret.at)
  /\ ret.ev # measurements[1]

\* The cycle positions a schedule's cursor can take
ValidPositions ==
  CASE run_schedule = "DAILY"   -> {0}
    [] run_schedule = "WEEKLY"  -> 0..6
    [] run_schedule = "MONTHLY" -> 1..31
    [] run_schedule = "YEARLY"  -> 1..366
    [] run_schedule = "MJD"     -> 0..(mjd_mod - 1)

\* C2: for every recurrence kind, the instant nextStart returns for a window
\* whose cycle_day is a valid position has the window's start as its time of
\* day and the window's cycle_day as its cycle position.
C2_NextStartIsOccurrence ==
  (ReturnedStart /\ ret.arg.day \in ValidPositions) =>
     /\ timeOfDay(ret.time) = ret.arg.start_time
     /\ PositionAt(ret.time) = ret.arg.day

\* The dayDiff of the specification: the signed difference, with the cycle
\* length added as often as makes it non-negative, and the cycle length
\* itself when that leaves 0 and the start has passed
SpecDayDiff(t, w) ==
  LET diff == w.day - PositionAt(t)
      wrapped == IF diff < 0
                 THEN diff + CycleLength
                             * ((CycleLength - 1 - diff) \div CycleLength)
                 ELSE diff
  IN IF wrapped = 0 /\ timeOfDay(t) > w.start_time THEN CycleLength
     ELSE wrapped

\* C3: nextStart(window) is the cursor moved on by dayDiff whole days, with
\* its time of day replaced by the window's start.
C3_NextStartFormula ==
  ReturnedStart =>
     ret.time = (dayOf(ret.at) + SpecDayDiff(ret.at, ret.arg)) * SecsPerDay
                   + ret.arg.start_time

\* C3 witness: a call whose signed difference was negative, so the cycle
\* length was added.
C3_Witness ==
  /\ ReturnedStart
  /\ ret.arg.day < PositionAt(ret.at)
  /\ CycleLength > 1
  /\ ret.time > ret.at

\* The window's cycle_day is the cursor's position up to whole cycles: the
\* dayDiff nextStart computes is 0 before the start is compared
SameCycleDay(t, w) ==
  w.day <= PositionAt(t) /\ (PositionAt(t) - w.day) % CycleLength = 0

\* The window's start on the cursor's date
SameDayStart(t, w) == dayOf(t) * SecsPerDay + w.start_time

\* C4: when nextStart's dayDiff is 0, it returns the start on the cursor's
\* date if the cursor's time of day is not after the window's start, and the
\* instant exactly cycleLength days after that if it is.
C4_SameDayAlreadyPassed ==
  (ReturnedStart /\ SameCycleDay(ret.at, ret.arg)) =>
     IF timeOfDay(ret.at) > ret.arg.start_time
     THEN ret.time = SameDayStart(ret.at, ret.arg) + CycleLength * SecsPerDay
     ELSE ret.time = SameDayStart(ret.at, ret.arg)

\* C4 witness: a weekly schedule's start had passed on the window's day, and
\* the start one week later was returned.
C4_Witness ==
  /\ ReturnedStart /\ SameCycleDay(ret.at, ret.arg)
  /\ run_schedule = "WEEKLY"
  /\ timeOfDay(ret.at) > ret.arg.start_time
  /\ ret.time = SameDayStart(ret.at, ret.arg) + 7 * SecsPerDay

\* C5: with a non-empty list of which no window is at or after the cursor,
\* nextMeasurementEvent raises no error and returns a window that no window
\* of the list comes before in (cycle_day, start) order.
C5_WrapReturnsFirst ==
  (ret.op \in {"nextMeasurementEvent", "lookup"} /\ measurements # <<>>
     /\ WindowsAtOrAfter(ret.at) = {}) =>
     /\ ~ret.threw
     /\ \E i \in 1..Len(measurements) : measurements[i] = ret.ev
     /\ \A j \in 1..Len(measurements) : ~Before(measurements[j], ret.ev)

\* C5 witness: the cursor was past both windows of a list whose windows are
\* on different days, and the first was returned.
C5_Witness ==
  /\ ReturnedEvent
  /\ Len(measurements) = 2
  /\ measurements[1].day < measurements[2].day
  /\ WindowsAtOrAfter(ret.at) = {}
  /\ ret.ev = measurements[1]

\* C6: the timestamps of the rows of a run on a validated window set never
\* decrease.
C6_MonotonicOutput ==
  \/ \A i, j \in 1..Len(output) : i <= j => output[i].time <= output[j].time
  \/ ~validateMeasurementEvents(measurements)

\* C6 witness: a run on a validated set has written rows in two visits.
C6_Witness ==
  /\ validateMeasurementEvents(measurements)
  /\ visit_base >= 2
  /\ Len(output) >= visit_base + 2

\* C7 as stated: no update of the cursor during a run decreases it.
C7_CursorNeverDecreases == [][current_time' >= current_time]_vars

\* C7, amended: adding the sampling interval and jumping to the next window's
\* start never decrease the cursor; setting the time of day to the window's
\* end moves the cursor back, to the window's end on the cursor's date.
C7_CursorStepsAndSnap ==
  [][/\ (pc = "inner" /\ pc' = "inner") => current_time' >= current_time
     /\ pc' = "outer" => current_time' >= current_time
     /\ (pc = "inner" /\ pc' = "lookup") =>
          /\ current_time' < current_time
          /\ current_time' = dayOf(current_time) * SecsPerDay + event.end_time
    ]_vars

\* C7 witness: the cursor has been set back to the end of a window in which
\* rows were written.
C7_Witness ==
  /\ pc = "lookup"
  /\ Len(output) > visit_base
  /\ timeOfDay(current_time) = event.end_time
  /\ current_time < output[Len(output)].time + event.interval_seconds

\* C8: a run on a non-empty validated window set with sampling intervals of
\* at least one second ends.  The inner loop decides on the cursor's time of
\* day alone and moves the cursor by a fixed interval, so a visit whose
\* cursor is back at a time of day at which the visit has written a row
\* repeats for ever: in a run that ends, no visit is sampled at a time of day
\* it has been sampled at before.
C8_RunTerminates ==
  (/\ measurements # <<>>
   /\ validateMeasurementEvents(measurements)
   /\ PositiveIntervals
   /\ pc = "inner"
   /\ timeOfDay(current_time) <= event.end_time) =>
     \A i \in (visit_base + 1)..Len(output) :
        timeOfDay(output[i].time) # timeOfDay(current_time)

\* C9: no row of a run has a timestamp at or after the end time.
C9_NoRowAtOrAfterEnd ==
  \A i \in 1..Len(output) : output[i].time < end_time

\* C10: with an empty window list nextMeasurementEvent throws, and
\* generateData ends with that exception without writing a row.
C10_NoWindowsConfigured ==
  measurements = <<>> =>
     /\ ret.op \in {"nextMeasurementEvent", "lookup"} => ret.threw
     /\ output = <<>>
     /\ pc \in {"config", "ready", "error", "destroyed"}

\* C10 witness: generateData was called on an empty list and has thrown.
C10_Witness ==
  /\ measurements = <<>>
  /\ pc = "error"
  /\ ret.op = "lookup" /\ ret.threw
  /\ output = <<>>

\* The configuration of the concrete scenario: a daily schedule with the one
\* window 00:00:00 to 00:01:00 sampled every 30 s, run from
\* 2024-01-01T00:00:00 to 2024-01-01T00:02:00
ScenarioConfigured ==
  /\ run_schedule = "DAILY"
  /\ Len(measurements) = 1
  /\ measurements[1] = [day |-> 0, start_time |-> 0, end_time |-> 60,
                        interval_seconds |-> 30]
  /\ start_time = 0
  /\ end_time = 120

\* The timestamps of the rows written so far
RowTimes == [i \in 1..Len(output) |-> output[i].time]

\* C12: in the concrete scenario the rows of a run are written at 00:00:00,
\* 00:00:30 and 00:01:00 of 2024-01-01 and no others; once the window's visit
\* is over the three rows are there, the next start is 00:00:00 of the next
\* day, which is beyond the end time, and the run returns.
C12_ConcreteScenario ==
  ScenarioConfigured =>
     /\ RowTimes = SubSeq(<<0, 30, 60>>, 1, Len(output))
     /\ pc # "error"
     /\ pc = "lookup" => RowTimes = <<0, 30, 60>> /\ current_time = 60
     /\ (pc \in {"outer", "done"} /\ output # <<>>) =>
          /\ RowTimes = <<0, 30, 60>>
          /\ current_time = SecsPerDay
          /\ current_time >= end_time

\* C12 witness: the run of the concrete scenario has returned with its three
\* rows.
C12_Witness ==
  /\ ScenarioConfigured
  /\ pc = "done"
  /\ RowTimes = <<0, 30, 60>>

\* C14: the cycle position of every instant the cursor takes, and of every
\* instant the scheduler returns, is 0 on a daily schedule, in 0..6 on a
\* weekly, in 1..31 on a monthly and in 1..366 on a yearly one, and is the
\* Modified Julian Day modulo the modulus, hence in 0..modulus-1, on an MJD
\* schedule.
C14_CyclePositionBounds ==
  \A t \in {current_time, ret.at, ret.time} :
     LET position == PositionAt(t)
     IN /\ position \in ValidPositions
        /\ run_schedule = "MJD" =>
             /\ position = mjd(t) % mjd_mod
             /\ position \in 0..(mjd_mod - 1)

\* C14 witness: the cursor of a yearly schedule is on day 366 of a leap year
\* during a run.
C14_Witness ==
  /\ run_schedule = "YEARLY"
  /\ pc \in {"outer", "inner"}
  /\ PositionAt(current_time) = 366

\* C13: the value of every row is the start frequency plus the drift rate
\* times the seconds from the start time to the row's timestamp; a row at the
\* start time has the start frequency itself, and with the default
\* coefficients -2753484.340 and 0.0002 a row 30 s after the start has
\* -2753484.334.
C13_DriftModel ==
  \A i \in 1..Len(output) :
     /\ output[i].value =
          quadPlus(start_frequency,
                   quadTimes(drift_rate, output[i].time - start_time))
     /\ output[i].time = start_time => output[i].value = start_frequency
     /\ (/\ start_frequency = [whole |-> -2753484, tenk |-> -3400]
         /\ drift_rate = [whole |-> 0, tenk |-> 2]
         /\ output[i].time = start_time + 30) =>
          output[i].value = [whole |-> -2753484, tenk |-> -3340]

\* C13 witness: with the default coefficients the second row of a run is
\* 30 s after the start time and has -2753484.334.
C13_Witness ==
  /\ start_frequency = [whole |-> -2753484, tenk |-> -3400]
  /\ drift_rate = [whole |-> 0, tenk |-> 2]
  /\ Len(output) >= 2
  /\ output[2].time = start_time + 30
  /\ output[2].value = [whole |-> -2753484, tenk |-> -3340]

\* C19: once the simulator is destroyed, the last run record's clean_run is
\* true exactly if generateData returned without an exception, whatever run
\* records the configuration held before the run.
C19_CleanRunReported ==
  pc = "destroyed" =>
     (lastRunRecord(run_records).clean_run <=> ~ret.threw)

\* Two windows of one cycle day that share more than an end point
Overlap(a, b) ==
  /\ a.day = b.day
  /\ a.start_time < b.end_time
  /\ b.start_time < a.end_time

\* C11: validateMeasurementEvents returns true exactly if every window of
\* the list ends after it starts and no two windows of the same cycle day
\* overlap, in whatever order the windows were added and whether or not the
\* two are neighbours in it; windows that touch (one ends as the next
\* starts) are accepted.
C11_ValidateIffDisjoint ==
  lib.op = "validateMeasurementEvents" =>
     (lib.value <=>
        /\ \A i \in 1..Len(lib.arg) :
              lib.arg[i].end_time > lib.arg[i].start_time
        /\ \A i, j \in 1..Len(lib.arg) :
              i # j => ~Overlap(lib.arg[i], lib.arg[j]))

\* C11 witness: three windows added out of order, of which the first and the
\* third overlap and the second touches the first, are rejected.
C11_Witness ==
  /\ lib.op = "validateMeasurementEvents"
  /\ Len(lib.arg) = 3
  /\ EventLess(lib.arg[3], lib.arg[1])
  /\ Overlap(lib.arg[1], lib.arg[3])
  /\ lib.arg[2].day = lib.arg[1].day
  /\ lib.arg[2].end_time = lib.arg[1].start_time
  /\ ~Overlap(lib.arg[1], lib.arg[2])
  /\ lib.value = FALSE

\* The strings of the round trip: the stamp, then no fraction or a '.' and
\* 1, 3 or 6 digits, then no suffix, Z, +HH:MM or -HH:MM
RoundTripForm(s) ==
  /\ Len(s) >= 19
  /\ StampShape(SubSeq(s, 1, 19))
  /\ \E k \in {19, 21, 23, 26} :
        /\ k <= Len(s)
        /\ (k > 19 => s[20] = "." /\ AllDigits(SubSeq(s, 21, k)))
        /\ (k = Len(s) \/ ZoneShape(SubSeq(s, k + 1, Len(s))))

\* C15: for every string of the extended ISO form with 0, 1, 3 or 6
\* fractional digits and no suffix, Z, +HH:MM or -HH:MM, the Time parsed from
\* it by fromISO prints, with toString, as the string itself.
C15_IsoRoundTrip ==
  (lib.op = "Time::toString" /\ RoundTripForm(lib.arg)) =>
     lib.text = lib.arg

\* The suffix of an ISO string: what follows the stamp and the fraction
Suffix(s) ==
  LET after == {k \in 20..Len(s) : s[k] \in {"Z", "+", "-"}}
  IN IF after = {} THEN <<>>
     ELSE SubSeq(s, CHOOSE k \in after : \A n \in after : k <= n, Len(s))

\* The string writes a date of the calendar and a time of the day, with a
\* '.' before the fraction if it has one
WritesTimestamp(s) ==
  /\ Number(SubSeq(s, 6, 7)) \in 1..12
  /\ Number(SubSeq(s, 9, 10)) \in
        1..DaysInMonth(Number(SubSeq(s, 1, 4)), Number(SubSeq(s, 6, 7)))
  /\ Number(SubSeq(s, 12, 13)) < 24
  /\ Number(SubSeq(s, 15, 16)) < 60
  /\ Number(SubSeq(s, 18, 19)) < 60
  /\ (Len(s) >= 20 => s[20] \in {".", "Z", "+", "-"})

\* The fraction an ISO string writes, in microseconds
WrittenFraction(s) ==
  LET digits == {k \in 21..Len(s) : \A n \in 21..k : s[n] \in Digit}
  IN IF Len(s) >= 20 /\ s[20] = "."
     THEN Number(SubSeq(s, 21, 20 + Cardinality(digits)))
            * Power10(6 - Cardinality(digits))
     ELSE 0

IsoGrammar(s) ==
  /\ Len(s) >= 19
  /\ StampShape(SubSeq(s, 1, 19))
  /\ \E k \in 19..Len(s) :
        /\ (k > 19 =>
              /\ s[20] = "."
              /\ k - 20 <= 6
              /\ AllDigits(SubSeq(s, 21, k)))
        /\ (k = Len(s) \/ ZoneShape(SubSeq(s, k + 1, Len(s))))

\* C17: fromISO, of DateTime and of Time, throws std::invalid_argument for
\* the empty string and for every string that is not of the grammar
\* YYYY-MM-DDTHH:MM:SS['.' and at most 6 digits][Z or +HH:MM or -HH:MM], and
\* returns no value for it.
C17_MalformedRejected ==
  (lib.op \in {"DateTime::fromISO", "Time::fromISO"}
     /\ ~IsoGrammar(lib.arg)) =>
        lib.threw = "invalid_argument"

\* An ISO string without its suffix: the date, the time and the fraction
Stem(s) == SubSeq(s, 1, Len(s) - Len(Suffix(s)))

\* The date, time and fraction fields an ISO string writes
WrittenFields(s) ==
  <<Number(SubSeq(s, 1, 4)), Number(SubSeq(s, 6, 7)),
    Number(SubSeq(s, 9, 10)), Number(SubSeq(s, 12, 13)),
    Number(SubSeq(s, 15, 16)), Number(SubSeq(s, 18, 19)),
    WrittenFraction(s)>>

\* C18: no zone conversion is made: two DateTimes parsed from timestamps are
\* equal exactly if the strings write the same date, time and fraction
\* fields, so two DateTimes parsed from strings that differ only in the
\* suffix (none, Z, +HH:MM, -HH:MM) compare equal and neither is less than
\* the other.
C18_NoZoneConversion ==
  lib.op = "DateTime::operator==, operator<" =>
     /\ lib.value.equal <=>
          WrittenFields(lib.arg[1]) = WrittenFields(lib.arg[2])
     /\ Stem(lib.arg[1]) = Stem(lib.arg[2]) =>
          /\ lib.value.equal
          /\ ~lib.value.less
          /\ ~lib.value.greater

\* C18 witness: the same date, time and fraction with the suffixes +06:00
\* and Z have been compared, and are equal.
C18_Witness ==
  /\ lib.op = "DateTime::operator==, operator<"
  /\ Stem(lib.arg[1]) = Stem(lib.arg[2])
  /\ Suffix(lib.arg[1]) = <<"+", "0", "6", ":", "0", "0">>
  /\ Suffix(lib.arg[2]) = <<"Z">>
  /\ lib.value.equal
  /\ ~lib.value.less

UpperCase ==
  <<"A", "B", "C", "D", "E", "F", "G", "H", "I", "J", "K", "L", "M", "N",
    "O", "P", "Q", "R", "S", "T", "U", "V", "W", "X", "Y", "Z">>

LowerCase ==
  <<"a", "b", "c", "d", "e", "f", "g", "h", "i", "j", "k", "l", "m", "n",
    "o", "p", "q", "r", "s", "t", "u", "v", "w", "x", "y", "z">>

\* A string with its capital letters made small
ToLower(s) ==
  [i \in 1..Len(s) |->
     IF \E n \in 1..26 : UpperCase[n] = s[i]
     THEN LowerCase[CHOOSE n \in 1..26 : UpperCase[n] = s[i]]
     ELSE s[i]]

\* The days whose name starts with the first two characters of the string,
\* whatever the case of the letters
DaysNamed(s) ==
  {d \in 0..6 :
     /\ Len(s) >= 2
     /\ ToLower(SubSeq(s, 1, 2)) = ToLower(SubSeq(toString(d), 1, 2))}

\* C20: fromString gives the weekday whose name starts with the first two
\* characters of the string, whatever the case of the letters ("Sunday",
\* "SUNDAY" and "su" give SUNDAY, and the name toString gives a day gives
\* the day back), and throws std::invalid_argument for a string that names
\* no weekday.
C20_WeekdayFromString ==
  lib.op = "fromString" =>
     IF DaysNamed(lib.arg) = {}
     THEN lib.threw = "invalid_argument"
     ELSE lib.threw = "none" /\ lib.value \in DaysNamed(lib.arg)

\* C21: setTime(t) makes the time of day of a DateTime equal to t, for a t
\* within one day, and leaves its calendar date as it is; addDays(n) leaves
\* the time of day as it is and moves the DateTime by exactly n * 24 hours;
\* so addDays(n) followed by setTime(t) gives the same DateTime as setTime(t)
\* followed by addDays(n).
C21_SetTimeAddDays ==
  lib.op = "addDays, setTime" =>
     LET t == lib.arg[1]
         days == lib.arg[2]
         time == lib.arg[3]
     IN /\ timeOfDay(lib.value.set) = time
        /\ dayOf(lib.value.set) = dayOf(t)
        /\ timeOfDay(lib.value.added) = timeOfDay(t)
        /\ lib.value.added - t = days * SecsPerDay
        /\ lib.value.added_set = lib.value.set_added

\* C21 witness: a DateTime at 23:59:59 was set to 00:01:00 and moved a day
\* back, in both orders, and is at 00:01:00 of the day before.
C21_Witness ==
  /\ lib.op = "addDays, setTime"
  /\ timeOfDay(lib.arg[1]) = SecsPerDay - 1
  /\ lib.arg[2] = -1
  /\ lib.arg[3] = 60
  /\ lib.value.added_set = (dayOf(lib.arg[1]) - 1) * SecsPerDay + 60
  /\ lib.value.set_added = lib.value.added_set

\* The rows written in the visit of the current event
VisitRows == (visit_base + 1)..Len(output)

\* C22: the upper bound of a window is inclusive.  Every row of a visit is
\* at a time of day not after the window's end, a row at exactly the end
\* included; the visit is over at the first step past the end, that is when
\* the instant one interval after its last row has a time of day after the
\* end; and the cursor's time of day is then exactly the window's end when
\* the next window is looked up.
C22_InclusiveUpperBound ==
  /\ pc \in {"inner", "lookup"} =>
        \A i \in VisitRows : timeOfDay(output[i].time) <= event.end_time
  /\ pc = "lookup" =>
        /\ timeOfDay(current_time) = event.end_time
        /\ VisitRows # {} =>
             LET step == output[Len(output)].time + event.interval_seconds
             IN /\ timeOfDay(step) > event.end_time
                /\ current_time = setTime(step, event.end_time)

\* C22 witness: a visit is over whose last row is at exactly the window's
\* end, and the cursor is at that end.
C22_Witness ==
  /\ pc = "lookup"
  /\ Cardinality(VisitRows) >= 2
  /\ timeOfDay(output[Len(output)].time) = event.end_time
  /\ current_time = output[Len(output)].time

\* generateData is running or about to return or throw in this step
Generating == pc \in {"ready", "outer", "inner", "lookup"} /\ pc' # "ready"

\* C24: a step of generateData leaves the schedule, the modulus, the list of
\* measurement events (contents and order), the start time, the end time,
\* the start frequency and the drift rate as they are, and changes no run
\* record but the last; generateData does not validate the events: started
\* on a list that is not empty it reaches its loops, valid list or not.
C24_ConfigurationReadOnly ==
  [][Generating =>
       /\ UNCHANGED config_vars
       /\ Len(run_records') = (IF run_records = <<>> /\ pc' = "done"
                               THEN 1 ELSE Len(run_records))
       /\ \A i \in 1..(Len(run_records) - 1) :
             run_records'[i] = run_records[i]
       /\ (pc = "ready" /\ measurements # <<>>) => pc' = "outer"
    ]_vars

\* C24 witness: a run on a list of overlapping events has written rows and
\* returned.
C24_Witness ==
  /\ pc = "done"
  /\ ~validateMeasurementEvents(measurements)
  /\ Len(output) >= 2

\* C25: a call of nextMeasurementEvent or of nextStart leaves the cursor and
\* the configuration as they are, and a second call in the same state
\* returns what the first returned.
C25_SchedulerCallsArePure ==
  [][(ret' # ret /\ ret'.op \in {"nextMeasurementEvent", "nextStart"}) =>
       /\ UNCHANGED <<config_vars, run_records, current_time>>
       /\ ret'.n = 2 =>
            /\ ret'.at = ret.at
            /\ ret'.ev = ret.ev
            /\ ret'.time = ret.time
            /\ ret'.threw = ret.threw
    ]_vars

\* C25 witness: nextStart was called twice with a window whose next start is
\* after the cursor, and the cursor has not moved.
C25_Witness ==
  /\ ret.op = "nextStart"
  /\ ret.n = 2
  /\ ret.time > ret.at
  /\ current_time = ret.at

StartsInside(w) ==
  /\ w.day = PositionAt(start_time)
  /\ w.start_time < timeOfDay(start_time)
  /\ timeOfDay(start_time) < w.end_time

\* C30: the first row of a window's visit is at the start returned for the
\* window, whose time of day is the window's start, and every further row of
\* the visit is exactly interval_seconds after the row before it; so a
\* window that the start time of the run falls strictly inside is not
\* visited on the day of the start time: no row of its visit is on that day.
C30_VisitStartsAtWindowStart ==
  (pc \in {"outer", "inner", "lookup"}) =>
     /\ VisitRows # {} =>
          /\ output[visit_base + 1].time = ret.time
          /\ timeOfDay(output[visit_base + 1].time) = event.start_time
     /\ \A i \in VisitRows :
          i > visit_base + 1 =>
             output[i].time = output[i - 1].time + event.interval_seconds
     /\ StartsInside(event) =>
          /\ dayOf(ret.time) > dayOf(start_time)
          /\ \A i \in VisitRows : dayOf(output[i].time) > dayOf(start_time)

\* C30 witness: the run started at 00:01:30, inside the window that opens at
\* 00:01:00, and the first rows of that window are at 00:01:00 and 00:01:30
\* of the next day.
C30_Witness ==
  /\ pc = "inner"
  /\ StartsInside(event)
  /\ timeOfDay(start_time) = 90
  /\ event.start_time = 60
  /\ Len(output) >= 2
  /\ output[1].time = (dayOf(start_time) + 1) * SecsPerDay + 60
  /\ output[2].time = output[1].time + 30

\* C26: every row of a visit lies inside the window sampled: its time of day
\* is between the window's start and end, and it is on the calendar day on
\* which the visit started (stated for validated window sets with sampling
\* intervals of at least one second).
C26_RowsInsideWindow ==
  (/\ validateMeasurementEvents(measurements)
   /\ PositiveIntervals
   /\ pc \in {"inner", "lookup"}) =>
     \A i \in VisitRows :
        /\ timeOfDay(output[i].time) >= event.start_time
        /\ timeOfDay(output[i].time) <= event.end_time
        /\ dayOf(output[i].time) = dayOf(ret.time)

\* C27: on a validated window set with sampling intervals of at least one
\* second, the timestamps of the rows of a run strictly increase: no
\* timestamp is written twice.
C27_NoTimestampTwice ==
  (validateMeasurementEvents(measurements) /\ PositiveIntervals) =>
     \A i, j \in 1..Len(output) : i < j => output[i].time < output[j].time

\* The windows of the list end after they start and no two of one cycle day
\* overlap
WindowsDisjoint ==
  /\ \A i \in 1..Len(measurements) :
        measurements[i].end_time > measurements[i].start_time
  /\ \A i, j \in 1..Len(measurements) :
        i # j => ~Overlap(measurements[i], measurements[j])

\* The inner loop is about to write a row for an event sampled every 0 s
ZeroVisit ==
  /\ pc = "inner"
  /\ event.interval_seconds = 0
  /\ timeOfDay(current_time) <= event.end_time

\* C23: validateMeasurementEvents accepts windows with interval_seconds = 0
\* (it accepts every list of disjoint windows, whatever the intervals), and
\* once the inner loop of a run is in such a window every step writes a row
\* at the same timestamp and leaves the cursor where it is, so the loop is
\* never left and the run never returns.
C23_ZeroIntervalNeverEnds ==
  /\ [](WindowsDisjoint => validateMeasurementEvents(measurements))
  /\ [][ZeroVisit =>
          /\ ZeroVisit'
          /\ current_time' = current_time
          /\ Len(output') = Len(output) + 1
          /\ output'[Len(output')].time = current_time
       ]_vars

\* C23 witness: a validated list holds a window sampled every 0 s, and the
\* run has written three rows at the window's start with the cursor still
\* there.
C23_Witness ==
  /\ validateMeasurementEvents(measurements)
  /\ ZeroVisit
  /\ Len(output) >= 3
  /\ \A i \in 1..Len(output) : output[i].time = current_time
  /\ timeOfDay(current_time) = event.start_time

\* The place of the window w in the (sorted) list
PlaceOf(w) == CHOOSE i \in 1..Len(measurements) : measurements[i] = w

\* The window after w in the cyclic order of the list
SuccessorOf(w) == measurements[(PlaceOf(w) % Len(measurements)) + 1]

\* The days from an occurrence of w to the next occurrence of v after it: the
\* difference of their cycle days, and a whole cycle when v does not come
\* after w on its day
DaysToNext(w, v) ==
  LET days == (v.day - w.day) % CycleLength
  IN IF days = 0 /\ v.start_time <= w.start_time THEN CycleLength ELSE days

\* C28: on a daily or weekly schedule with a validated window set and
\* sampling intervals of at least one second, the visit after the visit of a
\* window is of the next window of the sorted list (the first after the
\* last), and it starts at the first occurrence of that window after the
\* start of the visit before it; so two successive visits of the same
\* window start exactly one cycle apart and no occurrence is left out.
C28_VisitsInCyclicOrder ==
  [][(/\ run_schedule \in {"DAILY", "WEEKLY"}
      /\ validateMeasurementEvents(measurements)
      /\ PositiveIntervals
      /\ pc = "lookup"
      /\ pc' = "outer") =>
        /\ event' = SuccessorOf(event)
        /\ current_time' =
             (dayOf(ret.time) + DaysToNext(event, event')) * SecsPerDay
                + event'.start_time
    ]_vars

=============================================================================
